---- MODULE Spec2Model ----
(***************************************************************************)
(* The retrieval-augmented generation pipeline of US-FoodScope:            *)
(*   health/serving/rag_service.py     RAGService (initialize/retrieve/ask)*)
(*   health/serving/app.py             the /ask endpoint and the startup   *)
(*   health/serving/generate_assets.py the offline build of the artifacts  *)
(* Labels of the program counters are the source line numbers.             *)
(***************************************************************************)
EXTENDS Integers, Sequences, FiniteSets, TLC

VARIABLES
    model, index, chunks, client, initialized,  \* the fields of RAG_SERVICE
    pc, stack, op, query, top_k, rv,            \* each caller's position and locals
    out, calls,                                 \* outcome of the last call, calls made
    loads, initsDone,                           \* history: loads done, initialize() runs completed
    modelAvail, keySet,                         \* environment: model loadable, GROQ_API_KEY set
    indexFile, chunksFile,                      \* the two artifacts on disk
    gen, builds,                                \* the generate_assets process, runs started
    keyAtStart,                                 \* history: GROQ_API_KEY was set when the request began
    rag_service, options, stdout, replies       \* the Django side: rag/services.py, init_rag

svcVars == <<model, index, chunks, client, initialized>>
thrVars == <<pc, stack, op, query, top_k, rv, out, calls>>
histVars == <<loads, initsDone>>
envVars == <<modelAvail, keySet>>
diskVars == <<indexFile, chunksFile>>
genVars == <<gen, builds>>
webVars == <<rag_service, options, stdout, replies>>
vars == <<svcVars, thrVars, histVars, envVars, diskVars, genVars, keyAtStart, webVars>>

---------------------------------------------------------------------------
\* Bounds of the model.
NThreads == 2
MaxCalls == 2
MaxBuilds == 2
MaxTopK == 2
MaxRequests == 1

Threads == 1..NThreads

\* ask() always retrieves with top_k=10.
AskTopK == 10

---------------------------------------------------------------------------
\* Python values.
None == [kind |-> "None"]
NaN == "nan"
PyNone == "None"

\* A query a caller passes: a question, or the empty string.
Queries == {"q1", ""}
Answers == {"answer A", "answer B"}
NoClientError == "Groq client not initialized. Set GROQ_API_KEY environment variable."
EndpointErrors == {"timeout"}

\* pd.notna(x): neither NaN nor None.
notna(x) == x /= NaN /\ x /= PyNone

\* row.get(col, default) on a row of a DataFrame: the default only when the
\* frame has no such column; a missing value of an existing column is NaN.
Get(row, col, default) == IF col \in DOMAIN row THEN row[col] ELSE default

---------------------------------------------------------------------------
\* generate_assets.py: row_to_text. A text is a sequence of lines, a line the
\* sequence of the pieces the f-string concatenates.
RiskLines(row) ==
    IF notna(Get(row, "composite_risk", PyNone))
    THEN << <<"!!! ALERT: This county is identified as a Highest Composite Health Risk area (Cluster ",
              Get(row, "Cluster", PyNone), ").">>,
            <<"- Composite Health Risk Score: ", Get(row, "composite_risk", PyNone), ".">> >>
    ELSE << >>

OptionalLines(row) ==
    (IF notna(Get(row, "Description", PyNone))
     THEN << <<"- Environmental Context: ", Get(row, "Description", PyNone)>> >>
     ELSE << >>)
    \o
    (IF notna(Get(row, "Rule_Description", PyNone))
     THEN << <<"- Policy Context: ", Get(row, "Rule_Description", PyNone)>> >>
     ELSE << >>)

\* A profile whose risk block comes after the five fixed sections.
row_to_text_RiskLast(row) ==
    << <<"Comprehensive Profile for ", Get(row, "County", "Unknown County"), ", ",
         Get(row, "State", "Unknown State"), ":">> >>
    \o << <<"- Demographics: Population: ", Get(row, "Population", "N/A"),
            ", Poverty Rate: ", Get(row, "Poverty_Rate", "N/A"),
            "%, Median Income: $", Get(row, "Median_Income", "N/A"), ".">>,
          <<"- Health Outcomes: Adult Obesity Rate: ", Get(row, "Adult_Obesity_Rate13", "N/A"),
            "%, Adult Diabetes Rate: ", Get(row, "Adult_Diabetes_Rate13", "N/A"), "%.">>,
          <<"- Food Environment: ", Get(row, "Grocery_Stores_Per1000", "N/A"),
            " grocery stores per 1k residents, ", Get(row, "Farmers_Markets_Count_16", "N/A"),
            " farmers markets. Fast food density: ", Get(row, "FFRPTH14", "N/A"), "/1k residents.">>,
          <<"- Food Security: Food insecurity: ", Get(row, "FOODINSEC_13_15", "N/A"),
            "%. ", Get(row, "PCT_LACCESS_POP15", "N/A"), "% of pop. has low food access.">>,
          <<"- Physical Activity: Gym density: ", Get(row, "GYMs_Per_1000_Count_14", "N/A"),
            "/1k residents.">> >>
    \o RiskLines(row)
    \o OptionalLines(row)

row_to_text(row) ==
    << <<"Comprehensive Profile for ", Get(row, "County", "Unknown County"), ", ",
         Get(row, "State", "Unknown State"), ":">> >>
    \o RiskLines(row)
    \o << <<"- Demographics: Population: ", Get(row, "Population", "N/A"),
            ", Poverty Rate: ", Get(row, "Poverty_Rate", "N/A"),
            "%, Median Income: $", Get(row, "Median_Income", "N/A"), ".">>,
          <<"- Health Outcomes: Adult Obesity Rate: ", Get(row, "Adult_Obesity_Rate13", "N/A"),
            "%, Adult Diabetes Rate: ", Get(row, "Adult_Diabetes_Rate13", "N/A"), "%.">>,
          <<"- Food Environment: ", Get(row, "Grocery_Stores_Per1000", "N/A"),
            " grocery stores per 1k residents, ", Get(row, "Farmers_Markets_Count_16", "N/A"),
            " farmers markets. Fast food density: ", Get(row, "FFRPTH14", "N/A"), "/1k residents.">>,
          <<"- Food Security: Food insecurity: ", Get(row, "FOODINSEC_13_15", "N/A"),
            "%. ", Get(row, "PCT_LACCESS_POP15", "N/A"), "% of pop. has low food access.">>,
          <<"- Physical Activity: Gym density: ", Get(row, "GYMs_Per_1000_Count_14", "N/A"),
            "/1k residents.">> >>
    \o OptionalLines(row)

---------------------------------------------------------------------------
\* generate_assets.py: the join, the chunks, the embeddings, the index.

\* pd.merge(df_main, df_worst[['County','State','composite_risk']],
\*          on=['County','State'], how='left'): one output row per match of a
\* main row (in main order, matches in risk order), one row with NaN when there
\* is none. A composite_risk column of df_main itself is renamed with the
\* suffix _x, the merged one then being composite_risk_y.
MainPart(r) ==
    IF "composite_risk" \in DOMAIN r
    THEN [c \in (DOMAIN r \ {"composite_risk"}) \cup {"composite_risk_x"} |->
             IF c = "composite_risk_x" THEN r["composite_risk"] ELSE r[c]]
    ELSE r

Joined(r, risk) ==
    MainPart(r) @@
    ((IF "composite_risk" \in DOMAIN r THEN "composite_risk_y" ELSE "composite_risk") :> risk)

RECURSIVE merge(_, _)
merge(rows, worst) ==
    IF rows = << >> THEN << >>
    ELSE LET r == Head(rows)
             m == SelectSeq(worst, LAMBDA w : w.County = r.County /\ w.State = r.State)
         IN  (IF m = << >> THEN <<Joined(r, NaN)>>
              ELSE [j \in 1..Len(m) |-> Joined(r, m[j].composite_risk)])
             \o merge(Tail(rows), worst)

\* A risk dataset that does not exist on disk.
NoFile == [kind |-> "NoFile"]

\* Lines 65-76: df_combined.
Combined(data) ==
    IF data.worst = NoFile THEN data.main ELSE merge(data.main, data.worst.rows)

\* A build whose chunk ids count from 1 instead of the frame's labels.
iterrows_FromOne(df) == [i \in 1..Len(df) |-> <<i, df[i]>>]

\* df.iterrows(): (index label, row) pairs; both read_csv and merge give the
\* frame a RangeIndex, so the label is the 0-based position.
iterrows(df) == [i \in 1..Len(df) |-> <<i - 1, df[i]>>]

\* Lines 83-91: one Chunk per row of df_combined.
MakeChunk(i, row) ==
    [text |-> row_to_text(row),
     metadata |-> [county |-> Get(row, "County", PyNone),
                   state |-> Get(row, "State", PyNone),
                   is_high_risk |-> notna(Get(row, "composite_risk", PyNone))],
     chunk_id |-> i]

BuildChunks(df) ==
    [n \in 1..Len(df) |-> MakeChunk(iterrows(df)[n][1], iterrows(df)[n][2])]

BuildTexts(df) == [n \in 1..Len(df) |-> row_to_text(iterrows(df)[n][2])]

\* model.encode: the embedding of a text is kept symbolic (the vector "of" that
\* text); faiss.normalize_L2 makes it a unit vector.
Encode(texts) == [n \in 1..Len(texts) |-> [of |-> texts[n], unit |-> FALSE]]
normalize_L2(vs) == [n \in 1..Len(vs) |-> [vs[n] EXCEPT !.unit = TRUE]]

\* faiss.IndexFlatIP(d); index.add(embeddings): the vectors in insertion order.
IndexFlatIP(embeddings, b) == [kind |-> "index", build |-> b, vecs |-> embeddings]
ntotal(ix) == Len(ix.vecs)

\* pickle.dump(chunks): the chunk-list artifact of build b.
ChunkFile(chs, b) == [kind |-> "chunks", build |-> b, list |-> chs]

\* A file that does not exist, and one whose write was begun and not finished
\* (open(..., 'wb') truncates; a reader of it fails).
Absent == [kind |-> "Absent"]
Partial == [kind |-> "Partial"]

---------------------------------------------------------------------------
\* The datasets of the model: rows of rag_df.csv and worst_cluster_counties.csv.
FullRow(county, state, pop, pov) ==
    [County |-> county, State |-> state, Population |-> pop, Poverty_Rate |-> pov,
     Median_Income |-> "50000", Adult_Obesity_Rate13 |-> "30.1",
     Adult_Diabetes_Rate13 |-> "10.2", Grocery_Stores_Per1000 |-> "0.2",
     Farmers_Markets_Count_16 |-> "3", FOODINSEC_13_15 |-> "14.5",
     PCT_LACCESS_POP15 |-> "20.0", FFRPTH14 |-> "0.7", GYMs_Per_1000_Count_14 |-> "0.1"]

Alpha == FullRow("Alpha", "CA", "1000", "20")
Beta == FullRow("Beta", "TX", NaN, "5")
Gamma == [County |-> "Gamma", State |-> "NY", Poverty_Rate |-> "12"]
Delta == [County |-> "Delta", State |-> "WA", Poverty_Rate |-> NaN]
AlphaOwnRisk == Alpha @@ [composite_risk |-> "7.0", Cluster |-> "2"]
BetaOwnRisk == Beta @@ [composite_risk |-> NaN, Cluster |-> NaN]
AlphaDescr == Alpha @@ [Description |-> "rural", Rule_Description |-> NaN, Cluster |-> "3"]

RiskRow(county, state, risk, cluster) ==
    [County |-> county, State |-> state, composite_risk |-> risk, Cluster |-> cluster]

Datasets ==
    << [main |-> <<Alpha>>, worst |-> NoFile],
       [main |-> <<Alpha, Beta>>,
        worst |-> [rows |-> <<RiskRow("Alpha", "CA", "8.2", "1")>>]],
       [main |-> <<Beta, Alpha, Beta>>,
        worst |-> [rows |-> <<RiskRow("Beta", "TX", "9.1", "0"), RiskRow("Zeta", "OR", "6.0", "1")>>]],
       [main |-> <<Alpha, Beta>>,
        worst |-> [rows |-> <<RiskRow("Alpha", "CA", "8.2", "1"), RiskRow("Alpha", "CA", "8.4", "1")>>]],
       [main |-> << >>, worst |-> [rows |-> <<RiskRow("Alpha", "CA", "8.2", "1")>>]],
       [main |-> <<Gamma, Delta>>, worst |-> [rows |-> << >>]],
       [main |-> <<AlphaOwnRisk, BetaOwnRisk>>,
        worst |-> [rows |-> <<RiskRow("Beta", "TX", "9.1", "0")>>]],
       [main |-> <<AlphaDescr>>, worst |-> [rows |-> <<RiskRow("Alpha", "CA", NaN, "1")>>]],
       [main |-> <<AlphaOwnRisk>>, worst |-> NoFile] >>

---------------------------------------------------------------------------
\* rag_service.py: retrieve's search and result loop.

\* Similarities are in hundredths. The raw inner products the index reports
\* for a query are whatever the embedding model yields: any of ScoreValues
\* (below 0, inside [0,1], above 1 by rounding drift).
ScoreValues == {-20, 50, 101}
\* The score faiss gives the slots it cannot fill, with label -1.
PadScore == -1000

Max(a, b) == IF a >= b THEN a ELSE b
Min(a, b) == IF a <= b THEN a ELSE b

Orders(n) == {p \in [1..n -> 1..n] : \A i, j \in 1..n : p[i] = p[j] => i = j}

\* A search that reports what it found in any order.
SearchResults_Unsorted(ix, k) ==
    LET n == ntotal(ix) IN
    { [i \in 1..k |-> IF i <= n THEN <<p[i] - 1, s[p[i]]>> ELSE <<-1, PadScore>>] :
        <<s, p>> \in [1..n -> ScoreValues] \X Orders(n) }

\* index.search(x, k): k (label, score) pairs, the best min(k, ntotal) entries
\* by descending score (entries of equal score in either order), then padding.
SearchResults(ix, k) ==
    LET n == ntotal(ix) IN
    { [i \in 1..k |-> IF i <= n THEN <<p[i] - 1, s[p[i]]>> ELSE <<-1, PadScore>>] :
        <<s, p>> \in { sp \in [1..n -> ScoreValues] \X Orders(n) :
                         \A i \in 1..(n - 1) : sp[1][sp[2][i]] >= sp[1][sp[2][i + 1]] } }

\* A similarity passed on as the search reported it.
Clamp_Identity(dist) == dist

\* Line 87.
Clamp(dist) == Max(0, Min(100, dist))

\* A loop that tests only `idx < len(self.chunks)`: a negative idx then
\* indexes the list from its end.
RECURSIVE ResultLoop_NoLowerBound(_, _)
ResultLoop_NoLowerBound(chs, found) ==
    IF found = << >> THEN << >>
    ELSE LET idx == Head(found)[1]
             dist == Head(found)[2]
         IN  (IF idx < Len(chs)
              THEN << <<chs[IF idx >= 0 THEN idx + 1 ELSE Len(chs) + idx + 1], Clamp(dist)>> >>
              ELSE << >>)
             \o ResultLoop_NoLowerBound(chs, Tail(found))

\* Lines 80-90: the loop over zip(indices[0], distances[0]).
RECURSIVE ResultLoop(_, _)
ResultLoop(chs, found) ==
    IF found = << >> THEN << >>
    ELSE LET idx == Head(found)[1]
             dist == Head(found)[2]
         IN  (IF 0 <= idx /\ idx < Len(chs)
              THEN << <<chs[idx + 1], Clamp(dist)>> >>
              ELSE << >>)
             \o ResultLoop(chs, Tail(found))

\* Line 72: `not self.index or not self.chunks`.
NotLoaded(ix, chs) == ix = None \/ chs = << >>

\* Line 101: the context string, one "[Source: county, state] text" per chunk.
Context(rel) ==
    [i \in 1..Len(rel) |-> <<"[Source: ", rel[i][1].metadata.county, ", ",
                             rel[i][1].metadata.state, "] ", rel[i][1].text>>]

\* Sources listed from the last retrieved chunk to the first.
Sources_Reversed(rel) ==
    [i \in 1..Len(rel) |->
        [county |-> rel[Len(rel) + 1 - i][1].metadata.county,
         state |-> rel[Len(rel) + 1 - i][1].metadata.state,
         is_high_risk |-> rel[Len(rel) + 1 - i][1].metadata.is_high_risk,
         similarity |-> rel[Len(rel) + 1 - i][2]]]

\* Lines 134-138: metadata.copy() plus the similarity.
Sources(rel) ==
    [i \in 1..Len(rel) |->
        [county |-> rel[i][1].metadata.county, state |-> rel[i][1].metadata.state,
         is_high_risk |-> rel[i][1].metadata.is_high_risk, similarity |-> rel[i][2]]]

\* What the completion endpoint may do with a prompt: answer, or fail.
Completions == [ok : {TRUE}, text : Answers] \cup [ok : {FALSE}, text : EndpointErrors]

---------------------------------------------------------------------------
\* Calls, returns and exceptions of a caller t.
Ops == {"initialize", "retrieve", "ask", "endpoint", "startup", "init_rag", "generate_response"}
Entry(o) == CASE o = "initialize" -> "i40"
              [] o = "retrieve" -> "r72"
              [] o = "ask" -> "a93"
              [] o = "endpoint" -> "e259"
              [] o = "startup" -> "i40"
              [] o = "init_rag" -> "h34"
              [] o = "generate_response" -> "p23"

NoLocals(t) ==
    /\ query' = [query EXCEPT ![t] = "-"]
    /\ top_k' = [top_k EXCEPT ![t] = 0]
    /\ rv' = [rv EXCEPT ![t] = None]
    /\ stack' = [stack EXCEPT ![t] = << >>]
    /\ pc' = [pc EXCEPT ![t] = "idle"]

\* A caller starts one of the operations on the shared service.
Begin(t, o, q, k) ==
    /\ pc[t] = "idle"
    /\ calls' = [calls EXCEPT ![t] = @ + 1]
    /\ op' = [op EXCEPT ![t] = o]
    /\ pc' = [pc EXCEPT ![t] = Entry(o)]
    /\ query' = [query EXCEPT ![t] = q]
    /\ top_k' = [top_k EXCEPT ![t] = k]
    /\ out' = [out EXCEPT ![t] = [op |-> o, kind |-> "running", val |-> None]]
    /\ UNCHANGED <<stack, rv>>

\* `return v`: to the caller's next line, or out of the outermost call.
Return(t, v) ==
    /\ IF stack[t] = << >>
       THEN /\ out' = [out EXCEPT ![t] = [op |-> op[t], kind |-> "return", val |-> v]]
            /\ NoLocals(t)
       ELSE /\ pc' = [pc EXCEPT ![t] = Head(stack[t])]
            /\ stack' = [stack EXCEPT ![t] = Tail(@)]
            /\ rv' = [rv EXCEPT ![t] = v]
                    /\ UNCHANGED <<out, query, top_k>>
    /\ UNCHANGED <<op, calls>>

\* An exception e: no frame of initialize, retrieve, ask or the endpoint
\* handles it; the startup hook (app.py 132-136), whose whole body is the call
\* of initialize() inside try/except, catches and prints it.
Raise(t, e) ==
    /\ out' = [out EXCEPT ![t] =
                  IF op[t] = "startup"
                  THEN [op |-> op[t], kind |-> "return", val |-> [caught |-> e]]
                  ELSE [op |-> op[t], kind |-> "raise", val |-> [exc |-> e]]]
    /\ NoLocals(t)
    /\ UNCHANGED <<op, calls>>

\* A call of a method from line `back`'s predecessor: continue at `back` after it.
Call(t, entry, back, k) ==
    /\ pc' = [pc EXCEPT ![t] = entry]
    /\ stack' = [stack EXCEPT ![t] = <<back>> \o @]
    /\ top_k' = [top_k EXCEPT ![t] = k]
    /\ UNCHANGED <<op, calls, out, query, rv>>

Goto(t, label) ==
    /\ pc' = [pc EXCEPT ![t] = label]
    /\ UNCHANGED <<stack, op, query, top_k, rv, out, calls>>

---------------------------------------------------------------------------
\* rag_service.py 38-69: RAGService.initialize.
Loaded(kind) == [kind |-> kind]

\* An initialize() that does not look at the flag.
Initialize40_NoGuard(t) ==
    /\ pc[t] = "i40"
    /\ Goto(t, "i45")
    /\ UNCHANGED <<svcVars, histVars, envVars, diskVars, genVars>>
    /\ UNCHANGED <<keyAtStart, webVars>>

Initialize40(t) ==
    /\ pc[t] = "i40"
    /\ IF initialized THEN Return(t, None) ELSE Goto(t, "i45")
    /\ UNCHANGED <<svcVars, histVars, envVars, diskVars, genVars>>
    /\ UNCHANGED <<keyAtStart, webVars>>

\* Line 45 as it would be if a failed model load were tolerated and the
\* artifacts loaded all the same.
Initialize45_TolerateFailure(t) ==
    /\ pc[t] = "i45"
    /\ IF modelAvail
       THEN /\ model' = Loaded("SentenceTransformer")
            /\ loads' = [loads EXCEPT !.model = @ + 1]
       ELSE UNCHANGED <<model, loads>>
    /\ Goto(t, "i48")
    /\ UNCHANGED <<index, chunks, client, initialized, initsDone, envVars, diskVars, genVars>>
    /\ UNCHANGED <<keyAtStart, webVars>>

\* Line 45: SentenceTransformer(model_name) raises when the model cannot be loaded.
Initialize45(t) ==
    /\ pc[t] = "i45"
    /\ IF modelAvail
       THEN /\ model' = Loaded("SentenceTransformer")
            /\ loads' = [loads EXCEPT !.model = @ + 1]
            /\ Goto(t, "i48")
       ELSE /\ Raise(t, "model load failed")
            /\ UNCHANGED <<model, loads>>
    /\ UNCHANGED <<index, chunks, client, initialized, initsDone, envVars, diskVars, genVars>>
    /\ UNCHANGED <<keyAtStart, webVars>>

\* Lines 48-52: the index artifact, when the path exists.
Initialize48(t) ==
    /\ pc[t] = "i48"
    /\ CASE indexFile = Absent ->
              /\ Goto(t, "i55")
              /\ UNCHANGED <<index, loads>>
         [] indexFile = Partial ->
              /\ Raise(t, "read_index failed")
              /\ UNCHANGED <<index, loads>>
         [] OTHER ->
              /\ index' = indexFile
              /\ loads' = [loads EXCEPT !.index = @ + 1]
              /\ Goto(t, "i55")
    /\ UNCHANGED <<model, chunks, client, initialized, initsDone, envVars, diskVars, genVars>>
    /\ UNCHANGED <<keyAtStart, webVars>>

\* Lines 55-60: the chunk-list artifact, when the path exists.
Initialize55(t) ==
    /\ pc[t] = "i55"
    /\ CASE chunksFile = Absent ->
              /\ Goto(t, "i63")
              /\ UNCHANGED <<chunks, loads>>
         [] chunksFile = Partial ->
              /\ Raise(t, "pickle.load failed")
              /\ UNCHANGED <<chunks, loads>>
         [] OTHER ->
              /\ chunks' = chunksFile.list
              /\ loads' = [loads EXCEPT !.chunks = @ + 1]
              /\ Goto(t, "i63")
    /\ UNCHANGED <<model, index, client, initialized, initsDone, envVars, diskVars, genVars>>
    /\ UNCHANGED <<keyAtStart, webVars>>

\* Lines 63-67: the Groq client, when GROQ_API_KEY is set.
Initialize63(t) ==
    /\ pc[t] = "i63"
    /\ client' = IF keySet THEN Loaded("Groq") ELSE client
    /\ Goto(t, "i69")
    /\ UNCHANGED <<model, index, chunks, initialized, histVars, envVars, diskVars, genVars>>
    /\ UNCHANGED <<keyAtStart, webVars>>

\* Line 69.
Initialize69(t) ==
    /\ pc[t] = "i69"
    /\ initialized' = TRUE
    /\ initsDone' = initsDone + 1
    /\ Return(t, None)
    /\ UNCHANGED <<model, index, chunks, client, loads, envVars, diskVars, genVars>>
    /\ UNCHANGED <<keyAtStart, webVars>>

---------------------------------------------------------------------------
\* rag_service.py 71-90: RAGService.retrieve.
\* A retrieve() without the not-loaded guard.
Retrieve72_NoGuard(t) ==
    /\ pc[t] = "r72"
    /\ Goto(t, "r75")
    /\ UNCHANGED <<svcVars, histVars, envVars, diskVars, genVars>>
    /\ UNCHANGED <<keyAtStart, webVars>>

Retrieve72(t) ==
    /\ pc[t] = "r72"
    /\ IF NotLoaded(index, chunks)
       THEN Return(t, [results |-> << >>])
       ELSE Goto(t, "r75")
    /\ UNCHANGED <<svcVars, histVars, envVars, diskVars, genVars>>
    /\ UNCHANGED <<keyAtStart, webVars>>

\* Lines 75-76: self.model.encode on a model that is None is an AttributeError.
Retrieve75(t) ==
    /\ pc[t] = "r75"
    /\ IF model = None THEN Raise(t, "AttributeError") ELSE Goto(t, "r78")
    /\ UNCHANGED <<svcVars, histVars, envVars, diskVars, genVars>>
    /\ UNCHANGED <<keyAtStart, webVars>>

\* A retrieve() whose loop has no range test: an idx beyond the list is an IndexError.
Retrieve78_IndexError(t) ==
    /\ pc[t] = "r78"
    /\ IF index = None
       THEN Raise(t, "AttributeError")
       ELSE \E found \in SearchResults(index, top_k[t]) :
               IF \E i \in 1..Len(found) : found[i][1] >= Len(chunks)
               THEN Raise(t, "IndexError")
               ELSE Return(t, [results |-> ResultLoop(chunks, found)])
    /\ UNCHANGED <<svcVars, histVars, envVars, diskVars, genVars>>
    /\ UNCHANGED <<keyAtStart, webVars>>

\* Lines 78-90: the search and the loop over what it found (self.index.search
\* on an index that is None is an AttributeError).
Retrieve78(t) ==
    /\ pc[t] = "r78"
    /\ IF index = None
       THEN Raise(t, "AttributeError")
       ELSE \E found \in SearchResults(index, top_k[t]) :
               Return(t, [results |-> ResultLoop(chunks, found)])
    /\ UNCHANGED <<svcVars, histVars, envVars, diskVars, genVars>>
    /\ UNCHANGED <<keyAtStart, webVars>>

---------------------------------------------------------------------------
\* rag_service.py 92-146: RAGService.ask.
\* An ask() without the lazy initialization.
Ask93_NoLazyInit(t) ==
    /\ pc[t] = "a93"
    /\ Goto(t, "a96")
    /\ UNCHANGED <<svcVars, histVars, envVars, diskVars, genVars>>
    /\ UNCHANGED <<keyAtStart, webVars>>

Ask93(t) ==
    /\ pc[t] = "a93"
    /\ IF ~initialized THEN Call(t, "i40", "a96", top_k[t]) ELSE Goto(t, "a96")
    /\ UNCHANGED <<svcVars, histVars, envVars, diskVars, genVars>>
    /\ UNCHANGED <<keyAtStart, webVars>>

\* An ask() that does not test the client.
Ask96_NoClientCheck(t) ==
    /\ pc[t] = "a96"
    /\ Call(t, "r72", "a125", AskTopK)
    /\ UNCHANGED <<svcVars, histVars, envVars, diskVars, genVars>>
    /\ UNCHANGED <<keyAtStart, webVars>>

\* An ask() that builds its prompt without calling retrieve().
Ask96_NoRetrieve(t) ==
    /\ pc[t] = "a96"
    /\ IF client = None
       THEN Return(t, [error |-> NoClientError])
       ELSE /\ pc' = [pc EXCEPT ![t] = "a125"]
            /\ rv' = [rv EXCEPT ![t] = [results |-> << >>]]
            /\ UNCHANGED <<stack, op, query, top_k, out, calls>>
    /\ UNCHANGED <<svcVars, histVars, envVars, diskVars, genVars>>
    /\ UNCHANGED <<keyAtStart, webVars>>

\* Lines 96-100: without a client the error result; otherwise retrieve(query, top_k=10).
Ask96(t) ==
    /\ pc[t] = "a96"
    /\ IF client = None
       THEN Return(t, [error |-> NoClientError])
       ELSE Call(t, "r72", "a125", AskTopK)
    /\ UNCHANGED <<svcVars, histVars, envVars, diskVars, genVars>>
    /\ UNCHANGED <<keyAtStart, webVars>>

\* Lines 100-146: relevant_chunks is what retrieve returned; the context and
\* the prompt are built from it, and the completion endpoint is called once
\* inside try/except.
relevant_chunks(t) == rv[t].results

\* An ask() whose error result keeps an empty answer and the sources.
Ask125_PartialAnswer(t) ==
    /\ pc[t] = "a125"
    /\ \E c \in Completions :
          IF c.ok
          THEN Return(t, [answer |-> c.text, sources |-> Sources(relevant_chunks(t)),
                          context_used |-> Context(relevant_chunks(t))])
          ELSE Return(t, [error |-> c.text, answer |-> "",
                          sources |-> Sources(relevant_chunks(t))])
    /\ UNCHANGED <<svcVars, histVars, envVars, diskVars, genVars>>
    /\ UNCHANGED <<keyAtStart, webVars>>

\* An ask() whose completion call is outside any try.
Ask125_Propagate(t) ==
    /\ pc[t] = "a125"
    /\ \E c \in Completions :
          IF c.ok
          THEN Return(t, [answer |-> c.text, sources |-> Sources(relevant_chunks(t)),
                          context_used |-> Context(relevant_chunks(t))])
          ELSE Raise(t, c.text)
    /\ UNCHANGED <<svcVars, histVars, envVars, diskVars, genVars>>
    /\ UNCHANGED <<keyAtStart, webVars>>

\* Lines 134-138 as they would be without the copy: the similarity is written
\* into the metadata of the stored chunk itself.
Ask125_NoCopy(t) ==
    /\ pc[t] = "a125"
    /\ \E c \in Completions :
          IF c.ok
          THEN /\ Return(t, [answer |-> c.text, sources |-> Sources(relevant_chunks(t)),
                             context_used |-> Context(relevant_chunks(t))])
               /\ chunks' = [i \in DOMAIN chunks |->
                               IF \E j \in DOMAIN relevant_chunks(t) : relevant_chunks(t)[j][1] = chunks[i]
                               THEN [chunks[i] EXCEPT !.metadata =
                                        Sources(relevant_chunks(t))[
                                            CHOOSE j \in DOMAIN relevant_chunks(t) :
                                                relevant_chunks(t)[j][1] = chunks[i]]]
                               ELSE chunks[i]]
          ELSE /\ Return(t, [error |-> c.text])
               /\ UNCHANGED chunks
    /\ UNCHANGED <<model, index, client, initialized, histVars, envVars, diskVars, genVars>>
    /\ UNCHANGED <<keyAtStart, webVars>>

Ask125(t) ==
    /\ pc[t] = "a125"
    /\ \E c \in Completions :
          IF c.ok
          THEN Return(t, [answer |-> c.text, sources |-> Sources(relevant_chunks(t)),
                          context_used |-> Context(relevant_chunks(t))])
          ELSE Return(t, [error |-> c.text])
    /\ UNCHANGED <<svcVars, histVars, envVars, diskVars, genVars>>
    /\ UNCHANGED <<keyAtStart, webVars>>

---------------------------------------------------------------------------
\* app.py 257-270: the /ask endpoint. Lines 259-263: initialize when the flag
\* is unset, then RAG_SERVICE.ask(request.query).
Endpoint259(t) ==
    /\ pc[t] = "e259"
    /\ IF ~initialized
       THEN /\ pc' = [pc EXCEPT ![t] = "i40"]
            /\ stack' = [stack EXCEPT ![t] = <<"a93", "e264">>]
       ELSE /\ pc' = [pc EXCEPT ![t] = "a93"]
            /\ stack' = [stack EXCEPT ![t] = <<"e264">>]
    /\ UNCHANGED <<op, calls, out, query, top_k, rv>>
    /\ UNCHANGED <<svcVars, histVars, envVars, diskVars, genVars>>
    /\ UNCHANGED <<keyAtStart, webVars>>

\* Lines 264-270: HTTPException(500, detail=error), or AskResponse(answer, sources).
Endpoint264(t) ==
    /\ pc[t] = "e264"
    /\ out' = [out EXCEPT ![t] =
                  IF "error" \in DOMAIN rv[t]
                  THEN [op |-> op[t], kind |-> "http_error",
                        val |-> [status |-> 500, detail |-> rv[t].error]]
                  ELSE [op |-> op[t], kind |-> "return",
                        val |-> [answer |-> rv[t].answer, sources |-> rv[t].sources]]]
    /\ NoLocals(t)
    /\ UNCHANGED <<op, calls>>
    /\ UNCHANGED <<svcVars, histVars, envVars, diskVars, genVars>>
    /\ UNCHANGED <<keyAtStart, webVars>>

---------------------------------------------------------------------------
\* The callers. A library client (health/test_pipeline.py is one) calls
\* initialize(), retrieve() and ask(), at most n times; the serving process
\* runs the startup hook once and then serves /ask requests on its worker
\* threads.
CallInitialize(t, n) ==
    /\ calls[t] < n
    /\ Begin(t, "initialize", "-", 0)
    /\ UNCHANGED <<svcVars, histVars, envVars, diskVars, genVars>>
    /\ UNCHANGED <<keyAtStart, webVars>>

CallRetrieve(t, qs, n) ==
    /\ calls[t] < n
    /\ \E q \in qs, k \in 1..MaxTopK : Begin(t, "retrieve", q, k)
    /\ UNCHANGED <<svcVars, histVars, envVars, diskVars, genVars>>
    /\ UNCHANGED <<keyAtStart, webVars>>

CallAsk(t, qs, n) ==
    /\ calls[t] < n
    /\ \E q \in qs : Begin(t, "ask", q, 0)
    /\ UNCHANGED <<svcVars, histVars, envVars, diskVars, genVars>>
    /\ UNCHANGED <<keyAtStart, webVars>>

StartupDone == calls[1] >= 1 /\ ~(op[1] = "startup" /\ pc[1] /= "idle")

StartupBegin(t) ==
    /\ t = 1
    /\ calls[1] = 0
    /\ Begin(t, "startup", "-", 0)
    /\ UNCHANGED <<svcVars, histVars, envVars, diskVars, genVars>>
    /\ UNCHANGED <<keyAtStart, webVars>>

\* Each worker serves at most MaxRequests requests (thread 1 ran the hook before).
EndpointBegin(t) ==
    /\ StartupDone
    /\ calls[t] < MaxRequests + (IF t = 1 THEN 1 ELSE 0)
    /\ \E q \in {"q1"} : Begin(t, "endpoint", q, 0)
    /\ UNCHANGED <<svcVars, histVars, envVars, diskVars, genVars>>
    /\ keyAtStart' = [keyAtStart EXCEPT ![t] = keySet]
    /\ UNCHANGED webVars

\* The environment: the embedding model becomes (un)loadable, the credential
\* is set or unset.
EnvModel ==
    /\ modelAvail' = ~modelAvail
    /\ UNCHANGED <<keySet, svcVars, thrVars, histVars, diskVars, genVars>>
    /\ UNCHANGED <<keyAtStart, webVars>>

EnvKey ==
    /\ keySet' = ~keySet
    /\ UNCHANGED <<modelAvail, svcVars, thrVars, histVars, diskVars, genVars>>
    /\ UNCHANGED <<keyAtStart, webVars>>

---------------------------------------------------------------------------
\* generate_assets.py 61-110: one run of the offline build, step by step.
GenIdle == [pc |-> "idle", data |-> 0, df |-> << >>, chunks |-> << >>, texts |-> << >>,
            embeddings |-> << >>, index |-> None]

\* Lines 63-91: read the datasets, join them, make the chunks and the texts.
Generate63(d) ==
    /\ gen.pc = "idle"
    /\ builds < MaxBuilds
    /\ builds' = builds + 1
    /\ gen' = [GenIdle EXCEPT !.pc = "g94", !.data = d, !.df = Combined(Datasets[d]),
                              !.chunks = BuildChunks(Combined(Datasets[d])),
                              !.texts = BuildTexts(Combined(Datasets[d]))]
    /\ UNCHANGED <<svcVars, thrVars, histVars, envVars, diskVars>>
    /\ UNCHANGED <<keyAtStart, webVars>>

\* Lines 93-103: the run ends with the exception when the model cannot be
\* loaded; no texts give an array without a second dimension, and
\* embeddings.shape[1] ends the run; otherwise the index is built.
Generate94 ==
    /\ gen.pc = "g94"
    /\ gen' = IF ~modelAvail \/ gen.texts = << >> THEN GenIdle
              ELSE [gen EXCEPT !.pc = "g106",
                               !.embeddings = normalize_L2(Encode(gen.texts)),
                               !.index = IndexFlatIP(normalize_L2(Encode(gen.texts)), builds)]
    /\ UNCHANGED <<builds, svcVars, thrVars, histVars, envVars, diskVars>>
    /\ UNCHANGED <<keyAtStart, webVars>>

\* Line 106: faiss.write_index opens the file for writing (truncating it) ...
Generate106 ==
    /\ gen.pc = "g106"
    /\ indexFile' = Partial
    /\ gen' = [gen EXCEPT !.pc = "g106w"]
    /\ UNCHANGED <<chunksFile, builds, svcVars, thrVars, histVars, envVars>>
    /\ UNCHANGED <<keyAtStart, webVars>>

\* ... and writes the index.
Generate106w ==
    /\ gen.pc = "g106w"
    /\ indexFile' = gen.index
    /\ gen' = [gen EXCEPT !.pc = "g107"]
    /\ UNCHANGED <<chunksFile, builds, svcVars, thrVars, histVars, envVars>>
    /\ UNCHANGED <<keyAtStart, webVars>>

\* Line 107: open(output_chunks, 'wb').
Generate107 ==
    /\ gen.pc = "g107"
    /\ chunksFile' = Partial
    /\ gen' = [gen EXCEPT !.pc = "g108"]
    /\ UNCHANGED <<indexFile, builds, svcVars, thrVars, histVars, envVars>>
    /\ UNCHANGED <<keyAtStart, webVars>>

\* Lines 108-110: pickle.dump, close, done.
Generate108 ==
    /\ gen.pc = "g108"
    /\ chunksFile' = ChunkFile(gen.chunks, builds)
    /\ gen' = GenIdle
    /\ UNCHANGED <<indexFile, builds, svcVars, thrVars, histVars, envVars>>
    /\ UNCHANGED <<keyAtStart, webVars>>

\* The run stops where it is (killed, out of disk, out of memory).
GenerateStop ==
    /\ gen.pc /= "idle"
    /\ gen' = GenIdle
    /\ UNCHANGED <<builds, svcVars, thrVars, histVars, envVars, diskVars>>
    /\ UNCHANGED <<keyAtStart, webVars>>

---------------------------------------------------------------------------
\* rag/services.py: RemoteRAGService, get_rag_service; rag/management/commands/
\* init_rag.py: the init_rag command. Labels h.. are lines of init_rag.py,
\* p.. lines of services.py.

\* Lines 16-17: the object RemoteRAGService() makes, and the attributes an
\* instance has (lines 8-45): HF_API_URL, initialized, generate_response.
RemoteRAGService == [kind |-> "RemoteRAGService", initialized |-> TRUE]
RemoteAttrs == {"HF_API_URL", "initialized", "generate_response"}

\* Lines 50-54: the module's _rag_service after a call of get_rag_service().
get_rag_service == IF rag_service = None THEN RemoteRAGService ELSE rag_service

Unavailable == "The AI assistant is currently unavailable. Please try again later."

\* What requests.post(<HF_API_URL>/ask) followed by raise_for_status() and
\* json() gives: the AskResponse of the serving process (answer, sources), or
\* a RequestException (timeout, connection error, HTTP error status).
RemoteSources ==
    { << >>,
      << [county |-> "Alpha", state |-> "CA", is_high_risk |-> TRUE, similarity |-> 50] >> }
RequestErrors == {"ReadTimeout", "ConnectionError", "500 Server Error"}
RemoteReplies ==
    [ok : {TRUE}, answer : Answers, sources : RemoteSources, error : {PyNone}]
    \cup [ok : {FALSE}, answer : {PyNone}, sources : {<< >>}, error : RequestErrors]

\* python manage.py init_rag [--force]
CommandBegin(t) ==
    /\ t = 1
    /\ calls[t] < MaxCalls
    /\ \E f \in BOOLEAN : options' = [force |-> f]
    /\ stdout' = << >>
    /\ Begin(t, "init_rag", "-", 0)
    /\ UNCHANGED <<rag_service, replies>>
    /\ UNCHANGED <<svcVars, histVars, envVars, diskVars, genVars, keyAtStart>>

\* Lines 34-36.
Handle34(t) ==
    /\ pc[t] = "h34"
    /\ stdout' = Append(stdout, "Initializing RAG pipeline...")
    /\ Goto(t, "h39")
    /\ UNCHANGED <<rag_service, options, replies>>
    /\ UNCHANGED <<svcVars, histVars, envVars, diskVars, genVars, keyAtStart>>

\* Line 39: rag_service = get_rag_service().
Handle39(t) ==
    /\ pc[t] = "h39"
    /\ rag_service' = get_rag_service
    /\ Goto(t, "h40")
    /\ UNCHANGED <<options, stdout, replies>>
    /\ UNCHANGED <<svcVars, histVars, envVars, diskVars, genVars, keyAtStart>>

\* Lines 40-53: rag_service.initialize(force_rebuild=...), then the success
\* message with rag_service.vector_storage.index.ntotal; an attribute the
\* object does not have is an AttributeError, which the except clause reports
\* and raises again.
Handle40(t) ==
    /\ pc[t] = "h40"
    /\ IF {"initialize", "vector_storage"} \subseteq RemoteAttrs
       THEN /\ stdout' = Append(stdout, "RAG pipeline initialized successfully!")
            /\ Return(t, None)
       ELSE /\ stdout' = Append(stdout, "Error initializing RAG pipeline: AttributeError")
            /\ Raise(t, "AttributeError")
    /\ UNCHANGED <<rag_service, options, replies>>
    /\ UNCHANGED <<svcVars, histVars, envVars, diskVars, genVars, keyAtStart>>

\* A caller of get_rag_service().generate_response(query).
CallGenerateResponse(t) ==
    /\ calls[t] < MaxCalls
    /\ rag_service' = get_rag_service
    /\ replies' = [replies EXCEPT ![t] = << >>]
    /\ \E q \in Queries : Begin(t, "generate_response", q, 0)
    /\ UNCHANGED <<options, stdout>>
    /\ UNCHANGED <<svcVars, histVars, envVars, diskVars, genVars, keyAtStart>>

\* A generate_response whose except clause is missing.
GenerateResponse23_NoCatch(t) ==
    /\ pc[t] = "p23"
    /\ \E r \in RemoteReplies :
          /\ replies' = [replies EXCEPT ![t] = Append(@, r)]
          /\ IF r.ok
             THEN Return(t, [response |-> r.answer, sources |-> r.sources, error |-> PyNone])
             ELSE Raise(t, r.error)
    /\ UNCHANGED <<rag_service, options, stdout>>
    /\ UNCHANGED <<svcVars, histVars, envVars, diskVars, genVars, keyAtStart>>

\* Lines 23-45: one POST with timeout=15.0; the answer and sources of the
\* reply, or the fixed message with the text of the RequestException.
GenerateResponse23(t) ==
    /\ pc[t] = "p23"
    /\ \E r \in RemoteReplies :
          /\ replies' = [replies EXCEPT ![t] = Append(@, r)]
          /\ IF r.ok
             THEN Return(t, [response |-> r.answer, sources |-> r.sources, error |-> PyNone])
             ELSE Return(t, [response |-> Unavailable, sources |-> << >>, error |-> r.error])
    /\ UNCHANGED <<rag_service, options, stdout>>
    /\ UNCHANGED <<svcVars, histVars, envVars, diskVars, genVars, keyAtStart>>

\* The credential is set in the environment of the running process.
EnvKeySet ==
    /\ ~keySet
    /\ keySet' = TRUE
    /\ UNCHANGED <<modelAvail, svcVars, thrVars, histVars, diskVars, genVars, keyAtStart, webVars>>

---------------------------------------------------------------------------
\* The state after RAGService() (lines 23-36), no call made, no build run.
InitService ==
    /\ model = None
    /\ index = None
    /\ chunks = << >>
    /\ client = None
    /\ initialized = FALSE

InitCallers ==
    /\ pc = [t \in Threads |-> "idle"]
    /\ stack = [t \in Threads |-> << >>]
    /\ op = [t \in Threads |-> "-"]
    /\ query = [t \in Threads |-> "-"]
    /\ top_k = [t \in Threads |-> 0]
    /\ rv = [t \in Threads |-> None]
    /\ out = [t \in Threads |-> [op |-> "-", kind |-> "none", val |-> None]]
    /\ calls = [t \in Threads |-> 0]
    /\ loads = [model |-> 0, index |-> 0, chunks |-> 0]
    /\ initsDone = 0

\* The index artifact a deployment starts with before any build: none, or an
\* index that holds no vector.
EmptyIndex == IndexFlatIP(<< >>, 0)

\* What a completed run of the build over dataset d writes.
IndexOf(d, b) == IndexFlatIP(normalize_L2(Encode(BuildTexts(Combined(Datasets[d])))), b)
ChunksOf(d, b) == ChunkFile(BuildChunks(Combined(Datasets[d])), b)

\* The source data changes from one run of the build to the next: beside the
\* service, run b builds from the b-th dataset.
Snapshot(b) == b

\* The pairs of artifacts that runs of the build (finished, or stopped at any
\* step) leave on disk: the index is written first, so a chunk list is never
\* there without an index written by some run; the two may be of different runs.
DiskStates ==
    { ic \in ({Absent, EmptyIndex, Partial} \cup
                 {IndexOf(Snapshot(b), b) : b \in 1..MaxBuilds})
             \X ({Absent, Partial} \cup
                 {ChunksOf(Snapshot(b), b) : b \in 1..MaxBuilds}) :
        /\ ic[2] /= Absent => ic[1] \notin {Absent, EmptyIndex}
        /\ (ic[1].kind = "index" /\ ic[2].kind = "chunks") => ic[2].build <= ic[1].build }

InitEnv ==
    /\ modelAvail \in BOOLEAN
    /\ keySet \in BOOLEAN
    /\ gen = GenIdle
    /\ builds = 0
    /\ keyAtStart = [t \in Threads |-> FALSE]

\* rag/services.py 47-48: no service object yet; no command run, no request sent.
InitWeb ==
    /\ rag_service = None
    /\ options = [force |-> FALSE]
    /\ stdout = << >>
    /\ replies = [t \in Threads |-> << >>]

\* A service process over artifacts that no build is changing.
Init ==
    /\ InitService
    /\ InitCallers
    /\ InitEnv
    /\ InitWeb
    /\ \E ic \in DiskStates : indexFile = ic[1] /\ chunksFile = ic[2]

\* The serving process over no artifacts, over the pair of one build, or over
\* an index whose chunk list was left half-written.
AppInit ==
    /\ InitService
    /\ InitCallers
    /\ InitEnv
    /\ InitWeb
    /\ \E ic \in {<<Absent, Absent>>, <<IndexOf(1, 1), ChunksOf(1, 1)>>, <<IndexOf(1, 1), Partial>>} :
          indexFile = ic[1] /\ chunksFile = ic[2]

\* A fresh deployment, the build still to run.
SysInit ==
    /\ InitService
    /\ InitCallers
    /\ InitEnv
    /\ InitWeb
    /\ indexFile \in {Absent, EmptyIndex}
    /\ chunksFile = Absent

InitializeStep(t) ==
    \/ Initialize40(t) \/ Initialize45(t) \/ Initialize48(t)
    \/ Initialize55(t) \/ Initialize63(t) \/ Initialize69(t)

RetrieveStep(t) == Retrieve72(t) \/ Retrieve75(t) \/ Retrieve78(t)

AskStep(t) == Ask93(t) \/ Ask96(t) \/ Ask125(t)

EndpointStep(t) == Endpoint259(t) \/ Endpoint264(t)

GenerateStep ==
    \/ Generate94 \/ Generate106 \/ Generate106w
    \/ Generate107 \/ Generate108 \/ GenerateStop

\* One client of the service class over fixed artifacts.
Next ==
    \/ CallInitialize(1, MaxCalls) \/ CallRetrieve(1, Queries, MaxCalls)
    \/ CallAsk(1, Queries, MaxCalls)
    \/ InitializeStep(1) \/ RetrieveStep(1) \/ AskStep(1)
    \/ EnvModel \/ EnvKey

Spec == Init /\ [][Next]_vars

\* One client that initializes and retrieves while the build runs beside it.
SysNext ==
    \/ CallInitialize(1, MaxCalls) \/ CallRetrieve(1, {"q1"}, MaxCalls)
    \/ InitializeStep(1) \/ RetrieveStep(1)
    \/ Generate63(Snapshot(builds + 1))
    \/ GenerateStep
    \/ EnvModel

SysSpec == SysInit /\ [][SysNext]_vars

\* The serving process: the startup hook, then concurrent /ask requests.
AppNext ==
    \/ \E t \in Threads :
          \/ StartupBegin(t) \/ EndpointBegin(t)
          \/ InitializeStep(t) \/ RetrieveStep(t) \/ AskStep(t) \/ EndpointStep(t)
    \/ EnvModel

AppSpec == AppInit /\ [][AppNext]_vars

\* Concurrent clients of the service class: initialize() and ask() calls in
\* every interleaving.
ConcNext ==
    \/ \E t \in Threads :
          \/ CallInitialize(t, MaxRequests) \/ CallAsk(t, {"q1"}, MaxRequests)
          \/ InitializeStep(t) \/ RetrieveStep(t) \/ AskStep(t)
    \/ EnvModel

ConcSpec == AppInit /\ [][ConcNext]_vars

\* The offline build alone, over every dataset.
BuildNext ==
    \/ \E d \in 1..Len(Datasets) : Generate63(d)
    \/ GenerateStep
    \/ EnvModel

BuildSpec == SysInit /\ [][BuildNext]_vars

\* The Django process: the init_rag command and callers of generate_response.
DjangoInit ==
    /\ InitService
    /\ InitCallers
    /\ InitEnv
    /\ InitWeb
    /\ indexFile = Absent
    /\ chunksFile = Absent

DjangoNext ==
    \E t \in Threads :
        \/ CommandBegin(t) \/ Handle34(t) \/ Handle39(t) \/ Handle40(t)
        \/ CallGenerateResponse(t) \/ GenerateResponse23(t)

DjangoSpec == DjangoInit /\ [][DjangoNext]_vars

\* The serving process started without the credential, over the artifacts of
\* one build; the credential may be set while it runs.
KeyInit ==
    /\ InitService
    /\ InitCallers
    /\ InitEnv
    /\ InitWeb
    /\ ~keySet
    /\ indexFile = IndexOf(1, 1)
    /\ chunksFile = ChunksOf(1, 1)

KeyNext ==
    \/ \E t \in Threads :
          \/ StartupBegin(t) \/ EndpointBegin(t)
          \/ InitializeStep(t) \/ RetrieveStep(t) \/ AskStep(t) \/ EndpointStep(t)
    \/ EnvKeySet

KeySpec == KeyInit /\ [][KeyNext]_vars

---------------------------------------------------------------------------
\* Properties.

\* The call of o that thread t made has ended, by a return or by an exception.
Finished(t, o) == out[t].op = o /\ out[t].kind \in {"return", "raise", "http_error"}

\* C1: a call of initialize() returns normally and leaves the service
\* initialized, whatever dependency is unavailable (it never ends by raising or
\* with the flag unset).
C1_InitializeAlwaysCompletes ==
    \A t \in Threads :
        Finished(t, "initialize") => (out[t].kind = "return" /\ initialized)

\* C2: once initialize() has run with the embedding model loaded and the index
\* artifact missing, ask() returns a result with an empty sources list and an
\* answer that is a fixed message, not what the completion endpoint returned
\* (stated for the service whose generation client is available).
C2_DegradedAskFixedMessage ==
    \A t \in Threads :
        (Finished(t, "ask") /\ initialized /\ model /= None /\ index = None /\ client /= None)
        => /\ out[t].kind = "return"
           /\ {"answer", "sources"} \subseteq DOMAIN out[t].val
           /\ out[t].val.sources = << >>
           /\ out[t].val.answer \notin Answers

\* C3: no exception propagates out of ask(), whatever dependency fails.
C3_AskNeverRaises ==
    \A t \in Threads : Finished(t, "ask") => out[t].kind = "return"

\* C4: every step of an initialize() call on a service whose flag is set
\* returns at once, loads nothing and leaves model, index, chunks, client and
\* the flag as they were.
C4_InitializeIdempotent ==
    [][\A t \in Threads :
          (initialized /\ op[t] = "initialize" /\ pc[t] /= "idle" /\ pc'[t] /= pc[t])
          => /\ pc'[t] = "idle"
             /\ out'[t].kind = "return"
             /\ UNCHANGED <<model, index, chunks, client, initialized, loads>>]_vars

\* A second call made on the initialized service has returned, one load done.
C4_Witness ==
    /\ Finished(1, "initialize")
    /\ calls[1] = 2
    /\ initsDone = 1
    /\ loads.model = 1

\* C5: an ask() is past its initialization check (reading the client, the
\* index or the chunks) only when some initialize() call has run to completion.
C5_InitializationBarrier ==
    \A t \in Threads :
        (\/ pc[t] \in {"a96", "a125"}
         \/ (pc[t] \in {"r72", "r75", "r78"} /\ stack[t] /= << >> /\ Head(stack[t]) = "a125"))
        => initsDone >= 1

\* An ask() calls the completion endpoint while another caller is inside initialize().
C5_Witness ==
    \E t, u \in Threads :
        /\ t /= u
        /\ pc[t] = "a125"
        /\ op[t] = "ask"
        /\ pc[u] \in {"i45", "i48", "i55", "i63", "i69"}

\* C6: once the initialized flag is set, no step loads the embedding model,
\* the index or the chunk list again.
C6_NoLoadAfterInitialized ==
    [][initialized => loads' = loads]_vars

\* C7: the index artifact and the chunk-list artifact readable on disk are
\* always of the same build.
C7_ArtifactsOfOneBuild ==
    (indexFile.kind = "index" /\ chunksFile.kind = "chunks")
    => indexFile.build = chunksFile.build

\* C8: the initialized service never holds an index and a chunk list of
\* different lengths, nor one of the two without the other (initialize()
\* detects the mismatch instead of completing with it).
C8_PairingChecked ==
    initialized => IF index = None THEN chunks = << >> ELSE ntotal(index) = Len(chunks)

\* C9: the index and the chunk list a build has persisted agree position by
\* position: as many vectors as chunks, chunk_id equal to the position, and the
\* i-th vector the normalized embedding of the i-th chunk's text.
C9_PositionalInvariant ==
    (indexFile.kind = "index" /\ chunksFile.kind = "chunks"
        /\ indexFile.build = chunksFile.build)
    => /\ ntotal(indexFile) = Len(chunksFile.list)
       /\ \A i \in 1..Len(chunksFile.list) :
             /\ chunksFile.list[i].chunk_id = i - 1
             /\ indexFile.vecs[i] = normalize_L2(Encode(<<chunksFile.list[i].text>>))[1]

\* A finished build whose join gave three rows.
C9_Witness ==
    /\ gen.pc = "idle"
    /\ indexFile.kind = "index"
    /\ chunksFile.kind = "chunks"
    /\ indexFile.build = chunksFile.build
    /\ Len(chunksFile.list) = 3

\* C10: a retrieve() on a service whose index is not loaded, whose chunk list
\* is empty, or whose index holds no vector returns the empty sequence and
\* raises nothing.
C10_RetrieveEmptyWhenUnloaded ==
    \A t \in Threads :
        (Finished(t, "retrieve") /\ (index = None \/ chunks = << >> \/ ntotal(index) = 0))
        => (out[t].kind = "return" /\ out[t].val.results = << >>)

\* retrieve() has returned from a search of an index without vectors, the
\* chunk list loaded.
C10_Witness ==
    /\ Finished(1, "retrieve")
    /\ out[1].kind = "return"
    /\ index /= None
    /\ ntotal(index) = 0
    /\ chunks /= << >>

\* C11: a retrieve(q, k) that searches a loaded index paired with n >= 1
\* chunks returns exactly min(k, n) results and raises nothing, also when k
\* exceeds n.
C11_ResultCount ==
    [][\A t \in Threads :
          (pc[t] = "r78" /\ pc'[t] /= "r78" /\ index /= None
              /\ Len(chunks) >= 1 /\ ntotal(index) = Len(chunks))
          => IF stack[t] = << >>
             THEN /\ out'[t].kind = "return"
                  /\ Len(out'[t].val.results) = Min(top_k[t], Len(chunks))
             ELSE /\ pc'[t] = Head(stack[t])
                  /\ Len(rv'[t].results) = Min(top_k[t], Len(chunks))]_vars

\* The retrieval of an ask() (k = 10) over two chunks has returned two results.
C11_Witness ==
    /\ pc[1] = "a125"
    /\ index /= None
    /\ ntotal(index) = 2
    /\ Len(chunks) = 2
    /\ Len(rv[1].results) = 2

\* C12: every similarity in a result of retrieve(), and in the sources of a
\* result of ask(), lies in [0, 1] (0..100 hundredths).
C12_SimilarityInUnitInterval ==
    \A t \in Threads :
        /\ ("results" \in DOMAIN rv[t]) =>
              \A i \in 1..Len(rv[t].results) :
                  rv[t].results[i][2] >= 0 /\ rv[t].results[i][2] <= 100
        /\ ("results" \in DOMAIN out[t].val) =>
              \A i \in 1..Len(out[t].val.results) :
                  out[t].val.results[i][2] >= 0 /\ out[t].val.results[i][2] <= 100
        /\ ("sources" \in DOMAIN out[t].val) =>
              \A i \in 1..Len(out[t].val.sources) :
                  out[t].val.sources[i].similarity >= 0 /\ out[t].val.sources[i].similarity <= 100

\* A retrieve() has returned a score above 1 clamped to 1 and a score below 0
\* clamped to 0.
C12_Witness ==
    /\ Finished(1, "retrieve")
    /\ out[1].kind = "return"
    /\ Len(out[1].val.results) = 2
    /\ out[1].val.results[1][2] = 100
    /\ out[1].val.results[2][2] = 0

\* C13: the results of retrieve() are in non-increasing order of returned
\* similarity.
C13_ResultsDescending ==
    \A t \in Threads :
        /\ ("results" \in DOMAIN rv[t]) =>
              \A i \in 1..(Len(rv[t].results) - 1) :
                  rv[t].results[i][2] >= rv[t].results[i + 1][2]
        /\ ("results" \in DOMAIN out[t].val) =>
              \A i \in 1..(Len(out[t].val.results) - 1) :
                  out[t].val.results[i][2] >= out[t].val.results[i + 1][2]

\* A retrieve() has returned two results of different similarity.
C13_Witness ==
    /\ Finished(1, "retrieve")
    /\ out[1].kind = "return"
    /\ Len(out[1].val.results) = 2
    /\ out[1].val.results[1][2] = 50
    /\ out[1].val.results[2][2] = 0

\* C14: the search step of retrieve() on a loaded index raises nothing, and
\* every chunk it returns is the chunk at a position that is both in the index
\* and in the chunk list; positions outside the chunk list give no entry.
C14_OutOfRangeSkipped ==
    [][\A t \in Threads :
          (pc[t] = "r78" /\ pc'[t] /= "r78" /\ index /= None)
          => LET returned == IF stack[t] = << >> THEN out'[t].val ELSE rv'[t]
                 n == Min(ntotal(index), Len(chunks))
             IN  /\ stack[t] = << >> => out'[t].kind = "return"
                 /\ "results" \in DOMAIN returned
                 /\ Len(returned.results) <= Min(top_k[t], n)
                 /\ \A i \in 1..Len(returned.results) :
                       \E j \in 1..n : returned.results[i][1] = chunks[j]]_vars

\* A retrieve() over an index of two vectors and a chunk list of one chunk has
\* returned no result: the position the search reported was outside the list.
C14_Witness ==
    /\ Finished(1, "retrieve")
    /\ out[1].kind = "return"
    /\ index /= None
    /\ ntotal(index) = 2
    /\ Len(chunks) = 1
    /\ out[1].val.results = << >>

\* C15: without the credential initialize() still completes, with no client;
\* an ask() on the initialized service without a client then returns
\* {error: ...} and enters neither retrieve() nor the completion call.
C15_MissingCredential ==
    [][\A t \in Threads :
          /\ (pc[t] = "i63" /\ ~keySet /\ pc'[t] /= pc[t])
             => (pc'[t] = "i69" /\ client' = None)
          /\ (op[t] = "ask" /\ initialized /\ client = None
                 /\ pc[t] /= "idle" /\ pc'[t] /= pc[t])
             => /\ pc'[t] \in {"a96", "idle"}
                /\ pc'[t] = "idle" =>
                      out'[t] = [op |-> "ask", kind |-> "return",
                                 val |-> [error |-> NoClientError]]]_vars

\* An ask() has returned the error while index and chunks were loaded.
C15_Witness ==
    /\ Finished(1, "ask")
    /\ out[1].val = [error |-> NoClientError]
    /\ initialized
    /\ client = None
    /\ index /= None
    /\ chunks /= << >>

\* C16: an ask() reaches its completion call only by the return of its own
\* retrieve(query, top_k = 10), whose result the prompt is built from, and the
\* step that makes the completion call ends the ask(): the endpoint is called
\* at most once per ask().
C16_RetrievalBeforeGeneration ==
    [][\A t \in Threads :
          /\ (pc'[t] = "a125" /\ pc[t] /= "a125")
             => /\ pc[t] \in {"r72", "r78"}
                /\ top_k[t] = AskTopK
                /\ "results" \in DOMAIN rv'[t]
          /\ (pc[t] = "a125" /\ pc'[t] /= pc[t])
             => /\ pc'[t] \in {"idle", "e264"}
                /\ (stack[t] = << >> /\ "sources" \in DOMAIN out'[t].val)
                   => out'[t].val.sources = Sources(rv[t].results)]_vars

\* An ask() is at its completion call with a chunk retrieved.
C16_Witness ==
    /\ op[1] = "ask"
    /\ pc[1] = "a125"
    /\ Len(rv[1].results) >= 1

\* C17: the step of ask() that calls the completion endpoint never raises: a
\* failure of the endpoint ends the ask() with {error: message}, without
\* another call of the endpoint.
C17_EndpointFailureCaught ==
    [][\A t \in Threads :
          (op[t] = "ask" /\ pc[t] = "a125" /\ pc'[t] /= pc[t])
          => /\ pc'[t] = "idle"
             /\ out'[t].kind = "return"
             /\ \/ "answer" \in DOMAIN out'[t].val
                \/ \E e \in EndpointErrors : out'[t].val = [error |-> e]]_vars

\* An ask() has returned the error of a failed completion call.
C17_Witness ==
    /\ Finished(1, "ask")
    /\ out[1].kind = "return"
    /\ out[1].val = [error |-> "timeout"]

\* C18: the result ask() hands to the /ask endpoint is either an error result
\* (an 'error', no 'answer', no 'sources') or a success result ('answer' and
\* 'sources', no 'error'); the endpoint answers the first with an error
\* response that carries no answer and no sources, the second with the answer
\* and the sources.
C18_ResultShapes ==
    [][\A t \in Threads :
          (pc[t] = "e264" /\ pc'[t] /= pc[t])
          => IF "error" \in DOMAIN rv[t]
             THEN /\ "answer" \notin DOMAIN rv[t]
                  /\ "sources" \notin DOMAIN rv[t]
                  /\ out'[t].kind = "http_error"
                  /\ DOMAIN out'[t].val = {"status", "detail"}
                  /\ out'[t].val.detail = rv[t].error
             ELSE /\ {"answer", "sources"} \subseteq DOMAIN rv[t]
                  /\ out'[t].kind = "return"
                  /\ out'[t].val = [answer |-> rv[t].answer, sources |-> rv[t].sources]]_vars

\* The endpoint has answered the error of a failed completion call with an
\* error response.
C18_Witness ==
    \E t \in Threads :
        /\ out[t].op = "endpoint"
        /\ out[t].kind = "http_error"
        /\ out[t].val.detail = "timeout"

\* C19: in a successful result of ask(), sources has one entry per retrieved
\* (chunk, score) pair, in the same order, at most 10, and the i-th entry is
\* the i-th chunk's county, state and is_high_risk with the i-th score as
\* similarity.
C19_SourcesFollowRetrieval ==
    [][\A t \in Threads :
          (op[t] = "ask" /\ pc[t] = "a125" /\ pc'[t] /= pc[t]
              /\ "answer" \in DOMAIN out'[t].val)
          => LET retrieved == rv[t].results
                 sources == out'[t].val.sources
             IN  /\ Len(sources) = Len(retrieved)
                 /\ Len(sources) <= AskTopK
                 /\ \A i \in 1..Len(sources) :
                       /\ DOMAIN sources[i] = {"county", "state", "is_high_risk", "similarity"}
                       /\ sources[i].county = retrieved[i][1].metadata.county
                       /\ sources[i].state = retrieved[i][1].metadata.state
                       /\ sources[i].is_high_risk = retrieved[i][1].metadata.is_high_risk
                       /\ sources[i].similarity = retrieved[i][2]]_vars

\* An ask() has returned an answer with the sources of two different counties
\* at different similarities.
C19_Witness ==
    /\ Finished(1, "ask")
    /\ "sources" \in DOMAIN out[1].val
    /\ Len(out[1].val.sources) = 2
    /\ out[1].val.sources[1].county /= out[1].val.sources[2].county
    /\ out[1].val.sources[1].similarity /= out[1].val.sources[2].similarity

\* C20: a call with the empty string as its query gets neither past the
\* embedding of the query (to the index search) nor to the completion call.
C20_EmptyQueryRejected ==
    \A t \in Threads : query[t] = "" => pc[t] \notin {"r78", "a125"}

\* C22: the text built for a row has the risk-alert line iff the row's
\* composite_risk is non-null, and then the alert is the line right after the
\* header and before the demographics line.
C22_RiskLineIffComposite ==
    gen.pc = "g94" =>
        \A i \in 1..Len(gen.df) :
            LET row == gen.df[i]
                text == gen.texts[i]
                alert == "!!! ALERT: This county is identified as a Highest Composite Health Risk area (Cluster "
                risky == "composite_risk" \in DOMAIN row /\ row.composite_risk \notin {NaN, PyNone}
            IN  /\ text[1][1] = "Comprehensive Profile for "
                /\ (\E j \in 1..Len(text) : text[j][1] = alert) <=> risky
                /\ risky => /\ text[2][1] = alert
                            /\ text[4][1] = "- Demographics: Population: "
                /\ ~risky => text[2][1] = "- Demographics: Population: "

\* A build has made the texts of a row with a risk score and of a row whose
\* risk score is null.
C22_Witness ==
    /\ gen.pc = "g94"
    /\ \E i, j \in 1..Len(gen.df) :
          /\ "composite_risk" \in DOMAIN gen.df[i]
          /\ gen.df[i].composite_risk \notin {NaN, PyNone}
          /\ "composite_risk" \in DOMAIN gen.df[j]
          /\ gen.df[j].composite_risk = NaN

\* C23: in the text built for a row, each of the eleven attribute fields that
\* is missing from the row or null in it is rendered as 'N/A' in its slot, and
\* the five fixed sections are all there.
C23_MissingRendersNA ==
    gen.pc = "g94" =>
        \A i \in 1..Len(gen.df) :
            LET row == gen.df[i]
                text == gen.texts[i]
                slots == { <<"Population", "- Demographics: Population: ", 2>>,
                           <<"Poverty_Rate", "- Demographics: Population: ", 4>>,
                           <<"Median_Income", "- Demographics: Population: ", 6>>,
                           <<"Adult_Obesity_Rate13", "- Health Outcomes: Adult Obesity Rate: ", 2>>,
                           <<"Adult_Diabetes_Rate13", "- Health Outcomes: Adult Obesity Rate: ", 4>>,
                           <<"Grocery_Stores_Per1000", "- Food Environment: ", 2>>,
                           <<"Farmers_Markets_Count_16", "- Food Environment: ", 4>>,
                           <<"FFRPTH14", "- Food Environment: ", 6>>,
                           <<"FOODINSEC_13_15", "- Food Security: Food insecurity: ", 2>>,
                           <<"PCT_LACCESS_POP15", "- Food Security: Food insecurity: ", 4>>,
                           <<"GYMs_Per_1000_Count_14", "- Physical Activity: Gym density: ", 2>> }
            IN  \A f \in slots :
                    /\ \E j \in 1..Len(text) : text[j][1] = f[2]
                    /\ (f[1] \notin DOMAIN row \/ row[f[1]] \in {NaN, PyNone})
                       => \A j \in 1..Len(text) : text[j][1] = f[2] => text[j][f[3]] = "N/A"

\* C24: a build makes exactly one chunk per row of the primary dataset, in
\* the primary dataset's order, whatever the risk dataset holds.
C24_OneChunkPerPrimaryRow ==
    gen.pc = "g94" =>
        LET main == Datasets[gen.data].main
        IN  /\ Len(gen.chunks) = Len(main)
            /\ \A i \in 1..Len(main) :
                  /\ gen.chunks[i].metadata.county = main[i].County
                  /\ gen.chunks[i].metadata.state = main[i].State

\* C25: the chunk of a primary county that has a row in the risk dataset shows
\* that row's cluster id and composite risk score in its alert section, and
\* its metadata says is_high_risk.
C25_RiskAnnotation ==
    (gen.pc = "g94" /\ Datasets[gen.data].worst /= NoFile) =>
        \A i \in 1..Len(gen.chunks) :
            LET ch == gen.chunks[i]
                rows == Datasets[gen.data].worst.rows
                mine == { j \in 1..Len(rows) : /\ rows[j].County = ch.metadata.county
                                               /\ rows[j].State = ch.metadata.state }
            IN  mine /= {} =>
                   /\ ch.metadata.is_high_risk
                   /\ \E j \in mine :
                         /\ ch.text[2] = <<"!!! ALERT: This county is identified as a Highest Composite Health Risk area (Cluster ",
                                           rows[j].Cluster, ").">>
                         /\ ch.text[3] = <<"- Composite Health Risk Score: ", rows[j].composite_risk, ".">>

\* C26: a run of the init_rag command ends normally, its last output the
\* success message.
C26_InitRagSucceeds ==
    \A t \in Threads :
        Finished(t, "init_rag")
        => /\ out[t].kind = "return"
           /\ stdout /= << >>
           /\ stdout[Len(stdout)] = "RAG pipeline initialized successfully!"

\* C27: a /ask request that began when the credential was set is not answered
\* with the client-not-initialized error.
C27_KeySetLaterIsPickedUp ==
    \A t \in Threads :
        (Finished(t, "endpoint") /\ keyAtStart[t])
        => ~(out[t].kind = "http_error" /\ out[t].val.detail = NoClientError)

C29_QueryPathFrame ==
    [][\A t \in Threads :
          (initialized /\ op[t] \in {"retrieve", "ask"} /\ pc'[t] /= pc[t])
          => /\ model' = model
             /\ index' = index
             /\ chunks' = chunks
             /\ client' = client
             /\ initialized' = initialized]_vars

\* After initialization an ask() has returned an answer whose sources carry a
\* similarity, and the stored chunks carry none.
C29_Witness ==
    /\ initialized
    /\ Finished(1, "ask")
    /\ "sources" \in DOMAIN out[1].val
    /\ Len(out[1].val.sources) >= 1
    /\ \A i \in DOMAIN chunks : "similarity" \notin DOMAIN chunks[i].metadata

\* C30: a loaded index or a non-empty chunk list implies a loaded embedding
\* model, also after initialize() calls that failed part-way and were retried,
\* so retrieve() never encodes the query (line 75) with model = None.
C30_ArtifactsImplyModel ==
    /\ (index /= None \/ chunks /= << >>) => model /= None
    /\ \A t \in Threads : pc[t] = "r75" => model /= None

\* An initialize() that failed after loading the index has been retried and
\* has loaded the model a second time.
C30_Witness ==
    /\ loads.model = 2
    /\ index /= None
    /\ chunks = << >>
    /\ ~initialized

====
